---- MODULE Spec2Model ----
(***************************************************************************)
(* State-machine model of mandelbrot-rs (src/src/main.rs): the escape-time *)
(* evaluator, the Field renderer (calculate / draw) and the winit event    *)
(* loop that pans, zooms, resets and adjusts the iteration budget.         *)
(*                                                                         *)
(* f64 values are modelled as exact decimal fixed-point numbers: the       *)
(* integer v stands for v / Scale.  A viewport step is taken only when its *)
(* products are exact on that grid, so the arithmetic below is the         *)
(* real-number arithmetic of the source expressions.                       *)
(***************************************************************************)
EXTENDS Integers, Sequences, FiniteSets, TLC

VARIABLES
    re_limits,       \* MandelbrotSet.re_limits : <<lo, hi>>
    im_limits,       \* MandelbrotSet.im_limits : <<lo, hi>>
    max_iterations,  \* MandelbrotSet.max_iterations (u32)
    color_function,  \* MandelbrotSet.color_function : "gray" | "hue"
    set,             \* MandelbrotSet.set : [0 .. RESOLUTION^2 - 1 -> u8]
    input,           \* WinitInputHelper: keys pressed in the current step
    frame,           \* pixels.get_frame(): the RGBA byte buffer
    pc,              \* control state of the running program
    todo,            \* calculate(): indices no worker has written yet
    writes,          \* calculate(): number of writes made to each index
    arg,             \* arguments of a direct call of mandelbrot
    ret,             \* value returned by a direct call of mandelbrot
    pre_zoom         \* history: the viewport a zoom-in / zoom-out pair began at

vars == <<re_limits, im_limits, max_iterations, color_function, set, input,
          frame, pc, todo, writes, arg, ret, pre_zoom>>

----------------------------------------------------------------------------
(* Bounds of the model *)

\* side of the Field (the source constant is 800; the model keeps it small)
RESOLUTION == 2
\* decimal digits of the fixed-point grid
Digits == 2
\* viewport coordinates stay within [-MaxCoord, MaxCoord]
MaxCoord == 2
\* largest number of keys pressed in one input step
MaxKeys == 2
\* max_iterations is followed up to MaxRise increments above its default
MaxRise == 1
\* where the viewport moves as well, max_iterations is followed down to
\* MaxDrop decrements below its default
MaxDrop == 1
\* largest budget of a direct call of mandelbrot
MaxBudget == 4
\* extra 4-byte chunks a draw target may have beyond the Field
MaxExtra == 1
\* number of consecutive calculate() calls followed worker by worker
MaxCalls == 2

Scale == 10 ^ Digits

Cells == 0 .. (RESOLUTION * RESOLUTION - 1)

Min(a, b) == IF a < b THEN a ELSE b
Max(a, b) == IF a > b THEN a ELSE b

----------------------------------------------------------------------------
(* Program constants *)

DefaultIterations == 255
iterations_delta == 10
\* shift = 0.1, as the divisor of the range
ShiftDiv == 10
Opaque == 255

MaxIter == DefaultIterations + MaxRise * iterations_delta
MinIter == DefaultIterations - MaxDrop * iterations_delta

Keys == {"Up", "Down", "Left", "Right", "X", "Z", "C", "Subtract", "Add",
         "Equals", "Escape"}

----------------------------------------------------------------------------
(* Pure functions *)

\* normalize: (iterations / max_iterations * 255).round() as u8 (saturating)
Normalize(iterations, max) ==
    Min(255, (2 * 255 * iterations + max) \div (2 * max))

\* z.norm_sqr() < 4.0
Bounded(zr, zi) == zr * zr + zi * zi < 4 * Scale * Scale

\* z.powu(2) + c, real and imaginary part
SqrRe(zr, zi, cr) == ((zr * zr - zi * zi) \div Scale) + cr
SqrIm(zr, zi, ci) == ((2 * zr * zi) \div Scale) + ci

\* the loop condition of mandelbrot on the loop state <<n, zr, zi>>
LoopCond(s, max) == s[1] <= max /\ Bounded(s[2], s[3])

\* the loop body of mandelbrot
LoopBody(s, cr, ci) == <<s[1] + 1, SqrRe(s[2], s[3], cr), SqrIm(s[2], s[3], ci)>>

\* at most k iterations of the while loop from loop state s (the iterations are
\* split in halves to keep the evaluation shallow)
RECURSIVE MandelLoop(_, _, _, _, _)
MandelLoop(s, k, cr, ci, max) ==
    IF k = 0 \/ ~LoopCond(s, max) THEN s
    ELSE IF k = 1 THEN LoopBody(s, cr, ci)
    ELSE LET h == k \div 2
         IN  CHOOSE r \in {MandelLoop(t, k - h, cr, ci, max) :
                             t \in {MandelLoop(s, h, cr, ci, max)}} : TRUE

\* MandelbrotSet::mandelbrot: n counts up from 0 while n <= max_iterations, so
\* the loop leaves after at most max_iterations + 1 iterations
mandelbrot(re, im, max) == MandelLoop(<<0, 0, 0>>, max + 2, re, im, max)[1]

\* a closure that reads the Field cell next to the one it writes
CellValueRacy(i, re_l, im_l, max) ==
    Min(255, set[(i + 1) % (RESOLUTION * RESOLUTION)] + i)

\* the closure of calculate(): the value written to index i
CellValue(i, re_l, im_l, max) ==
    LET re_range == re_l[2] - re_l[1]
        im_range == im_l[2] - im_l[1]
        m_re == re_range \div RESOLUTION
        m_im == im_range \div RESOLUTION
        x == i % RESOLUTION
        y == i \div RESOLUTION
        re == re_l[1] + m_re * x
        im == im_l[1] + m_im * y
    IN  Normalize(mandelbrot(re, im, max), max)

\* calculate(), run to completion
calculate(re_l, im_l, max) == [i \in Cells |-> CellValue(i, re_l, im_l, max)]

\* hsv_to_rgb([c, 255, 255]): one channel, n = 5, 3, 1 for r, g, b
HueChannel(n, c) ==
    LET k == (85 * n + 2 * c) % 510
        m == Max(0, Min(Min(k, 340 - k), 85))
    IN  255 - 3 * m

hsv_to_rgb(c) == <<HueChannel(5, c), HueChannel(3, c), HueChannel(1, c)>>

\* (self.color_function)(c)
Color(cf, c) == IF cf = "gray" THEN <<c, c, c>> ELSE hsv_to_rgb(c)

\* a draw that asserts the length of its target
drawChecked(s, cf, fr) ==
    [panic |-> Len(fr) # 4 * RESOLUTION * RESOLUTION, frame |-> fr]

\* MandelbrotSet::draw on a target of Len(fr) bytes: the chunks of 4 bytes are
\* written in order; indexing self.set past its end panics.
draw(s, cf, fr) ==
    LET chunks == Len(fr) \div 4
        done == Min(chunks, RESOLUTION * RESOLUTION)
        out == [j \in 1 .. Len(fr) |->
                  LET i == (j - 1) \div 4
                      b == (j - 1) % 4
                  IN  IF i < done
                      THEN IF b = 3 THEN Opaque ELSE Color(cf, s[i])[b + 1]
                      ELSE fr[j]]
    IN  [panic |-> chunks > RESOLUTION * RESOLUTION, frame |-> out]

FrameLen == 4 * RESOLUTION * RESOLUTION
BlankFrame == [j \in 1 .. FrameLen |-> 0]
BlankSet == [i \in Cells |-> 0]
NoWrites == [i \in Cells |-> 0]
NoArg == <<0, 0, 0>>
NoZoom == [phase |-> "none", re |-> <<0, 0>>, im |-> <<0, 0>>]

----------------------------------------------------------------------------
(* The event loop *)

\* MandelbrotSet::new(): re_limits and im_limits
NewLimits == <<-2 * Scale, 2 * Scale>>

\* shift * range, and whether that product is exact on the grid
Tenth(range) == range \div ShiftDiv
Exact(range) == range % ShiftDiv = 0

InRange(l) == -MaxCoord * Scale <= l[1] /\ l[2] <= MaxCoord * Scale

PanKeys == {"Up", "Down", "Left", "Right"}
ViewKeys == PanKeys \cup {"X", "Z"}

\* lines 169-174: the sum of the shifts of two opposite directions, in units
\* of shift
Dir(neg, pos) == (IF neg THEN -1 ELSE 0) + (IF pos THEN 1 ELSE 0)

\* lines 168-182, imaginary axis (invert_vertical is true)
PanIm(keys, im_l, im_range) ==
    LET im_shift == -1 * Dir("Down" \in keys, "Up" \in keys)
    IN  IF keys \cap PanKeys # {}
        THEN <<im_l[1] + im_shift * Tenth(im_range),
               im_l[2] + im_shift * Tenth(im_range)>>
        ELSE im_l

\* lines 168-182, real axis
PanRe(keys, re_l, re_range) ==
    LET re_shift == Dir("Left" \in keys, "Right" \in keys)
    IN  IF keys \cap PanKeys # {}
        THEN <<re_l[1] + re_shift * Tenth(re_range),
               re_l[2] + re_shift * Tenth(re_range)>>
        ELSE re_l

\* a zoom block with shift = 0.5
ZoomHalf(keys, l, range) ==
    LET zoom_dir == IF "X" \in keys THEN 1 ELSE -1
    IN  IF "X" \in keys \/ "Z" \in keys
        THEN <<l[1] + zoom_dir * (range \div 2), l[2] - zoom_dir * (range \div 2)>>
        ELSE l

\* a zoom block that applies zoom_in and zoom_out one after the other
ZoomBoth(keys, l, range) ==
    LET in == IF "X" \in keys THEN Tenth(range) ELSE 0
        out == IF "Z" \in keys THEN Tenth(range) ELSE 0
    IN  <<l[1] + in - out, l[2] - in + out>>

\* a zoom block whose zoom_out undoes a zoom_in (an eighth of the range)
ZoomInverse(keys, l, range) ==
    IF "X" \in keys
    THEN <<l[1] + Tenth(range), l[2] - Tenth(range)>>
    ELSE IF "Z" \in keys
    THEN <<l[1] - (range \div 8), l[2] + (range \div 8)>>
    ELSE l

\* lines 183-192: the zoom block; range is the range read before the pan
Zoom(keys, l, range) ==
    LET zoom_dir == IF "X" \in keys THEN 1 ELSE -1
    IN  IF "X" \in keys \/ "Z" \in keys
        THEN <<l[1] + zoom_dir * Tenth(range), l[2] - zoom_dir * Tenth(range)>>
        ELSE l

\* a reset that keeps the field
AfterResetKeep(keys, cur, fresh) == cur

\* lines 193-195: a field after the reset block
AfterReset(keys, cur, fresh) == IF "C" \in keys THEN fresh ELSE cur

\* a budget block that refuses the decrement when its result would be at or
\* below the step
BudgetStrict(keys, m0) ==
    LET m1 == IF "Add" \in keys \/ "Equals" \in keys
              THEN m0 + iterations_delta ELSE m0
    IN  IF "Subtract" \in keys /\ m1 - 10 > iterations_delta THEN m1 - 10 ELSE m1

\* a budget block without the guard of the decrement
BudgetUnguarded(keys, m0) ==
    LET m1 == IF "Add" \in keys \/ "Equals" \in keys
              THEN m0 + iterations_delta ELSE m0
    IN  IF "Subtract" \in keys THEN m1 - 10 ELSE m1

\* lines 196-202: the budget after more_iterations and less_iterations
Budget(keys, m0) ==
    LET m1 == IF "Add" \in keys \/ "Equals" \in keys
              THEN m0 + iterations_delta ELSE m0
    IN  IF "Subtract" \in keys /\ m1 > iterations_delta THEN m1 - 10 ELSE m1

\* a recompute condition that leaves out reset
NeedsCalcNoReset(keys) ==
    keys \cap (ViewKeys \cup {"Subtract", "Add", "Equals"}) # {}

\* line 203: whether the step recomputes the Field
NeedsCalc(keys) ==
    keys \cap (ViewKeys \cup {"C", "Subtract", "Add", "Equals"}) # {}

InitLoop ==
    /\ re_limits = NewLimits
    /\ im_limits = NewLimits
    /\ max_iterations = DefaultIterations
    /\ color_function = "hue"
    /\ set = calculate(NewLimits, NewLimits, DefaultIterations)
    /\ input = {}
    /\ frame = BlankFrame
    /\ pc = "idle"
    /\ todo = {}
    /\ writes = NoWrites
    /\ arg = NoArg
    /\ ret = 0
    /\ pre_zoom = NoZoom

\* Event::NewEvents: input.update() clears the keys of the previous step
NewEvents ==
    /\ pc = "idle"
    /\ input' = {}
    /\ pc' = "poll"
    /\ UNCHANGED <<re_limits, im_limits, max_iterations, color_function, set,
                   frame, todo, writes, arg, ret, pre_zoom>>

\* Event::RedrawRequested: lines 117-134
Redraw ==
    /\ pc = "redraw"
    /\ LET d == draw(set, color_function, frame)
       IN  /\ frame' = d.frame
           /\ pc' = IF d.panic THEN "panic" ELSE "idle"
    /\ UNCHANGED <<re_limits, im_limits, max_iterations, color_function, set,
                   input, todo, writes, arg, ret, pre_zoom>>

\* An input step with Escape pressed (or the window closed): lines 139-142
Quit(keys) ==
    /\ pc = "poll"
    /\ "Escape" \in keys
    /\ input' = keys
    /\ pc' = "exit"
    /\ UNCHANGED <<re_limits, im_limits, max_iterations, color_function, set,
                   frame, todo, writes, arg, ret, pre_zoom>>

\* An input step (the key events and Event::MainEventsCleared): lines 137-209.
\* The first three conjuncts of the IN part are the bounds of the model: the
\* products are exact, the viewport stays within MaxCoord and the budget
\* within MaxIter (far below the overflow of u32).
InputStep(keys) ==
    /\ pc = "poll"
    /\ "Escape" \notin keys
    /\ LET im_range == im_limits[2] - im_limits[1]
           re_range == re_limits[2] - re_limits[1]
           im1 == Zoom(keys, PanIm(keys, im_limits, im_range), im_range)
           re1 == Zoom(keys, PanRe(keys, re_limits, re_range), re_range)
           re2 == AfterReset(keys, re1, NewLimits)
           im2 == AfterReset(keys, im1, NewLimits)
           m2 == Budget(keys, AfterReset(keys, max_iterations, DefaultIterations))
       IN  /\ keys \cap ViewKeys # {} => Exact(re_range) /\ Exact(im_range)
           /\ InRange(re1) /\ InRange(im1)
           /\ m2 <= MaxIter
           /\ re_limits' = re2
           /\ im_limits' = im2
           /\ max_iterations' = m2
           /\ color_function' = AfterReset(keys, color_function, "gray")
           /\ set' = IF NeedsCalc(keys)
                     THEN calculate(re2, im2, m2)
                     ELSE AfterReset(keys, set, BlankSet)
    /\ input' = keys
    /\ pc' = "redraw"
    /\ UNCHANGED <<frame, todo, writes, arg, ret>>

\* history of zoom pairs: a step of zoom_in alone records the viewport it
\* began at, a following step of zoom_out alone completes the pair, a step that
\* leaves the viewport alone keeps the record, any other step drops it
Track(keys) ==
    pre_zoom' =
        IF keys = {"X"}
        THEN [phase |-> "in", re |-> re_limits, im |-> im_limits]
        ELSE IF keys = {"Z"} /\ pre_zoom.phase = "in"
        THEN [pre_zoom EXCEPT !.phase = "out"]
        ELSE IF keys \cap (ViewKeys \cup {"C"}) = {} /\ pre_zoom.phase = "in"
        THEN pre_zoom
        ELSE NoZoom

Chords(keyset) == {k \in SUBSET keyset : Cardinality(k) <= MaxKeys}

BudgetKeys == {"Add", "Equals", "Subtract", "C", "Escape"}
NoBudgetKeys == ViewKeys \cup {"C", "Escape"}

\* The event loop with every key; the budget is followed from MinIter to MaxIter
Next ==
    \/ NewEvents
    \/ Redraw
    \/ \E keys \in Chords(Keys) : Quit(keys) /\ UNCHANGED pre_zoom
    \/ \E keys \in Chords(Keys) :
          InputStep(keys) /\ max_iterations' >= MinIter /\ UNCHANGED pre_zoom

Spec == InitLoop /\ [][Next]_vars

\* The event loop with the budget and reset keys; the budget is followed all
\* the way down
NextBudget ==
    \/ NewEvents
    \/ Redraw
    \/ \E keys \in Chords(BudgetKeys) : Quit(keys) /\ UNCHANGED pre_zoom
    \/ \E keys \in Chords(BudgetKeys) : InputStep(keys) /\ UNCHANGED pre_zoom

SpecBudget == InitLoop /\ [][NextBudget]_vars

\* The event loop with the pan, zoom and reset keys, and the history of zoom
\* pairs
NextView ==
    \/ NewEvents
    \/ Redraw
    \/ \E keys \in Chords(NoBudgetKeys) : Quit(keys) /\ UNCHANGED pre_zoom
    \/ \E keys \in Chords(NoBudgetKeys) : InputStep(keys) /\ Track(keys)

SpecView == InitLoop /\ [][NextView]_vars

----------------------------------------------------------------------------
(* Direct calls of mandelbrot *)

\* the points -2, -1.5, .. , 2 of either axis
Points == {k * (Scale \div 2) : k \in -4 .. 4}

InitMandelbrot ==
    /\ arg \in Points \X Points \X (1 .. MaxBudget)
    /\ ret = 0
    /\ pc = "call"
    /\ re_limits = NewLimits
    /\ im_limits = NewLimits
    /\ max_iterations = DefaultIterations
    /\ color_function = "gray"
    /\ set = BlankSet
    /\ input = {}
    /\ frame = BlankFrame
    /\ todo = {}
    /\ writes = NoWrites
    /\ pre_zoom = NoZoom

CallMandelbrot ==
    /\ pc = "call"
    /\ ret' = mandelbrot(arg[1], arg[2], arg[3])
    /\ pc' = "returned"
    /\ UNCHANGED <<re_limits, im_limits, max_iterations, color_function, set,
                   input, frame, todo, writes, arg, pre_zoom>>

SpecMandelbrot == InitMandelbrot /\ [][CallMandelbrot]_vars

----------------------------------------------------------------------------
(* Direct calls of draw *)

\* targets of every length up to MaxExtra chunks more than the Field needs
Targets == {[j \in 1 .. n |-> 0] : n \in 0 .. (FrameLen + 4 * MaxExtra)}

InitDraw ==
    /\ frame \in Targets
    /\ set \in [Cells -> {0, 255}]
    /\ color_function \in {"gray", "hue"}
    /\ pc = "call"
    /\ re_limits = NewLimits
    /\ im_limits = NewLimits
    /\ max_iterations = DefaultIterations
    /\ input = {}
    /\ todo = {}
    /\ writes = NoWrites
    /\ arg = NoArg
    /\ ret = 0
    /\ pre_zoom = NoZoom

CallDraw ==
    /\ pc = "call"
    /\ LET d == draw(set, color_function, frame)
       IN  /\ frame' = d.frame
           /\ pc' = IF d.panic THEN "panic" ELSE "returned"
    /\ UNCHANGED <<re_limits, im_limits, max_iterations, color_function, set,
                   input, todo, writes, arg, ret, pre_zoom>>

SpecDraw == InitDraw /\ [][CallDraw]_vars

----------------------------------------------------------------------------
(* calculate(), worker by worker *)

\* the default viewport and one zoom-in step of it
SomeLimits == {NewLimits, Zoom({"X"}, NewLimits, NewLimits[2] - NewLimits[1])}

InitCalculate ==
    /\ re_limits \in SomeLimits
    /\ im_limits \in SomeLimits
    /\ max_iterations \in 1 .. MaxBudget
    /\ set \in {BlankSet, [i \in Cells |-> 255]}
    /\ pc = "ready"
    /\ todo = {}
    /\ writes = NoWrites
    /\ color_function = "gray"
    /\ input = {}
    /\ frame = BlankFrame
    /\ arg = NoArg
    /\ ret = 0
    /\ pre_zoom = NoZoom

\* lines 54-61: calculate() reads the fields and hands the Field to the pool
CalcBegin ==
    /\ pc \in {"ready", "done"}
    /\ \A i \in Cells : writes[i] < MaxCalls
    /\ todo' = Cells
    /\ pc' = "calc"
    /\ UNCHANGED <<re_limits, im_limits, max_iterations, color_function, set,
                   input, frame, writes, arg, ret, pre_zoom>>

\* lines 61-67: some worker runs the closure on an index not yet visited
Worker(i) ==
    /\ pc = "calc"
    /\ i \in todo
    /\ set' = [set EXCEPT ![i] = CellValue(i, re_limits, im_limits, max_iterations)]
    /\ writes' = [writes EXCEPT ![i] = @ + 1]
    /\ todo' = todo \ {i}
    /\ UNCHANGED <<re_limits, im_limits, max_iterations, color_function, input,
                   frame, pc, arg, ret, pre_zoom>>

\* line 67: for_each returns once every index has been visited
CalcJoin ==
    /\ pc = "calc"
    /\ todo = {}
    /\ pc' = "done"
    /\ UNCHANGED <<re_limits, im_limits, max_iterations, color_function, set,
                   input, frame, todo, writes, arg, ret, pre_zoom>>

NextCalculate ==
    \/ CalcBegin
    \/ \E i \in Cells : Worker(i)
    \/ CalcJoin

SpecCalculate == InitCalculate /\ [][NextCalculate]_vars

----------------------------------------------------------------------------
(* Properties *)

\* an input step has just been handled
Step == pc = "poll" /\ pc' = "redraw"

\* C1: mandelbrot(re, im, N) returns a count r with 0 <= r <= N, and
\* mandelbrot(0, 0, N) = N.
C1_CountWithinBudget ==
    pc = "returned" =>
        /\ 0 <= ret /\ ret <= arg[3]
        /\ (arg[1] = 0 /\ arg[2] = 0 => ret = arg[3])

\* C2 (as claimed): a decrement is refused when its result would be at or below
\* the step 10 and otherwise subtracts 10, so the budget never is at or below 10.
C2_DecrementStaysAboveStep ==
    [][Step =>
        LET m0 == IF "C" \in input' THEN DefaultIterations ELSE max_iterations
            m1 == IF "Add" \in input' \/ "Equals" \in input'
                  THEN m0 + iterations_delta ELSE m0
        IN  /\ "Subtract" \in input' =>
                  max_iterations' = IF m1 - 10 <= 10 THEN m1 ELSE m1 - 10
            /\ max_iterations' > 10]_vars

\* C2 (amended): a decrement is refused when the budget it applies to is at or
\* below the step 10 and otherwise subtracts 10; the budget stays positive.
C2_DecrementRefusedAtOrBelowStep ==
    [][Step =>
        LET m0 == IF "C" \in input' THEN DefaultIterations ELSE max_iterations
            m1 == IF "Add" \in input' \/ "Equals" \in input'
                  THEN m0 + iterations_delta ELSE m0
        IN  /\ "Subtract" \in input' =>
                  max_iterations' = IF m1 <= 10 THEN m1 ELSE m1 - 10
            /\ max_iterations' >= 1]_vars

\* a decrement has taken the budget below the step
C2_Witness == "Subtract" \in input /\ pc = "redraw" /\ max_iterations = 5

\* C3 (as claimed): a zoom-in step followed by a zoom-out step returns
\* re_limits and im_limits to their values before the zoom-in.
C3_ZoomPairRestores ==
    pre_zoom.phase = "out" =>
        re_limits = pre_zoom.re /\ im_limits = pre_zoom.im

\* C3 (amended): a zoom-in step followed by a zoom-out step keeps the centre of
\* each axis and leaves its range at 0.96 of the range before the zoom-in.
C3_ZoomPairShrinks ==
    pre_zoom.phase = "out" =>
        /\ re_limits[1] + re_limits[2] = pre_zoom.re[1] + pre_zoom.re[2]
        /\ im_limits[1] + im_limits[2] = pre_zoom.im[1] + pre_zoom.im[2]
        /\ 100 * (re_limits[2] - re_limits[1])
              = 96 * (pre_zoom.re[2] - pre_zoom.re[1])
        /\ 100 * (im_limits[2] - im_limits[1])
              = 96 * (pre_zoom.im[2] - pre_zoom.im[1])

\* a zoom-in step and then a zoom-out step have been handled
C3_Witness == pre_zoom.phase = "out" /\ pc = "redraw"

\* C4: at every draw the Field is the one calculate() gives for the current
\* re_limits, im_limits and max_iterations, and the frame is drawn from it.
C4_DrawShowsCurrentField ==
    [][pc = "redraw" /\ pc' # "redraw" =>
        /\ set = calculate(re_limits, im_limits, max_iterations)
        /\ frame' = draw(set, color_function, frame).frame]_vars

\* a frame has been drawn after a step that moved the viewport
C4_Witness ==
    /\ pc = "idle"
    /\ input \cap ViewKeys # {}
    /\ re_limits # NewLimits
    /\ frame # BlankFrame

\* C5 (as claimed): after an input step with reset the viewport is
\* [-2, 2] x [-2, 2], the budget is 255 and the colour mapping is grayscale.
C5_ResetRestoresDefaults ==
    pc = "redraw" /\ "C" \in input =>
        /\ re_limits = NewLimits
        /\ im_limits = NewLimits
        /\ max_iterations = DefaultIterations
        /\ color_function = "gray"

\* C5 (amended): after an input step with reset the viewport is
\* [-2, 2] x [-2, 2], the colour mapping is grayscale, and the budget is 255
\* plus 10 if an increment and minus 10 if a decrement is in the same step.
C5_ResetThenBudgetKeys ==
    pc = "redraw" /\ "C" \in input =>
        /\ re_limits = NewLimits
        /\ im_limits = NewLimits
        /\ color_function = "gray"
        /\ max_iterations = DefaultIterations
              + (IF "Add" \in input \/ "Equals" \in input THEN 10 ELSE 0)
              - (IF "Subtract" \in input THEN 10 ELSE 0)

\* reset and an increment have been handled in one step
C5_Witness ==
    pc = "redraw" /\ input = {"C", "Add"} /\ max_iterations = 265

\* C6 (as claimed): draw on a target shorter than 4 * RESOLUTION^2 bytes
\* panics.
C6_ShortTargetPanics ==
    pc # "call" /\ Len(frame) < FrameLen => pc = "panic"

\* C6 (amended): draw on a target shorter than 4 * RESOLUTION^2 bytes returns
\* normally with the complete 4-byte chunks of the target written from the
\* first cells of the Field and the rest untouched; draw panics exactly when
\* the target holds more than RESOLUTION^2 chunks.
C6_ShortTargetTruncates ==
    pc # "call" =>
        /\ pc = "panic" <=> Len(frame) \div 4 > RESOLUTION * RESOLUTION
        /\ Len(frame) < FrameLen =>
              /\ pc = "returned"
              /\ \A j \in 1 .. Len(frame) :
                    frame[j] =
                        IF (j - 1) \div 4 >= Len(frame) \div 4 THEN 0
                        ELSE IF (j - 1) % 4 = 3 THEN Opaque
                        ELSE Color(color_function,
                                   set[(j - 1) \div 4])[((j - 1) % 4) + 1]

\* draw has returned from a target that is too short
C6_Witness ==
    pc = "returned" /\ Len(frame) < FrameLen /\ Len(frame) >= 4

C8_BudgetPositive == max_iterations \in Nat /\ max_iterations > 0

\* an increment and a decrement have been handled in one step at the lowest
\* budget
C8_Witness ==
    pc = "redraw" /\ input = {"Add", "Subtract"} /\ max_iterations = 5

C10_CalculateDeterministic ==
    pc \in {"calc", "done"} =>
        /\ \A i, j \in Cells :
              writes[i] + (IF i \in todo THEN 1 ELSE 0)
                  = writes[j] + (IF j \in todo THEN 1 ELSE 0)
        /\ \A i \in Cells :
              writes[i] >= 1 =>
                  set[i] = calculate(re_limits, im_limits, max_iterations)[i]
        /\ pc = "done" => set = calculate(re_limits, im_limits, max_iterations)

\* two calculate() calls have run to completion
C10_Witness == pc = "done" /\ \A i \in Cells : writes[i] = 2

====
